---------------------------- MODULE Spec2Model ----------------------------
(***************************************************************************)
(* MedMap: the top-level controller (App), the mind-map renderer (MindMap) *)
(* and the side panel (SidePanel) as one state machine.                     *)
(*                                                                         *)
(* Strings that the program trims, compares or concatenates (topics,       *)
(* concept names, node ids) are sequences of one-character strings; the    *)
(* strings it only compares (relations, systems, colours, messages) are    *)
(* TLA+ strings.  A nullable value is a sequence of length 0 or 1.         *)
(***************************************************************************)
EXTENDS Integers, Sequences, FiniteSets, TLC

(***************************************************************************)
(* Bounds of the model.                                                    *)
(***************************************************************************)
\* longest list of concepts the generative service returns
MaxConcepts == 2
\* most map-generation requests in flight at once
MaxInFlight == 2
\* the x coordinates of the simulated plane are 0..MaxCoord
MaxCoord == 1
\* longest flashcard list of the side panel
MaxCards == 2
\* number of distinct topics the history scenario's user searches
MaxTopics == 11

(***************************************************************************)
(* Program constants.                                                      *)
(***************************************************************************)
\* newHistory.slice(0, 10)
HistoryCap == 10
\* 'Diabetes Mellitus', shortened to two characters
DEFAULT_TOPIC ==
    <<"D", "i", "a", "b", "e", "t", "e", "s", " ", "M", "e", "l",
     "l", "i", "t", "u", "s">>
CentralRelation == "Central Topic"
CentralColor == "#06b6d4"
\* simulation.alphaTarget(0.3), in tenths
AlphaTargetRaised == 3
MapErrorMessage ==
    "API Error: Could not generate map. You may have exceeded your quota. Please try again later."
QuizErrorMessage ==
    "API Error: Could not generate quiz. You may have exceeded your quota. Please try again later."
FlashcardErrorMessage ==
    "API Error: Could not generate flashcard. You may have exceeded your quota. Please try again later."
NoError == "null"

\* the colour table of App; a system that is not a key has no entry
systemColors ==
    [s \in {"Cardiovascular", "Nervous", "Endocrine", "Respiratory",
            "Gastrointestinal", "Renal", "Immune", "Pharmacology",
            "Metabolic", "Diagnostics", "Default"} |->
       CASE s = "Cardiovascular" -> "#ef4444"
         [] s = "Nervous" -> "#3b82f6"
         [] s = "Endocrine" -> "#8b5cf6"
         [] s = "Respiratory" -> "#0ea5e9"
         [] s = "Gastrointestinal" -> "#f97316"
         [] s = "Renal" -> "#eab308"
         [] s = "Immune" -> "#22c55e"
         [] s = "Pharmacology" -> "#6366f1"
         [] s = "Metabolic" -> "#ec4899"
         [] s = "Diagnostics" -> "#14b8a6"
         [] OTHER -> "#6b7280"]

EmptyGraph == [nodes |-> <<>>, links |-> <<>>]

\* null, and a value that is not null
Null == <<>>
Some(v) == <<v>>

\* the identifiers d3-drag gives to concurrent gestures
Pointers == {"mouse", "touch"}

\* the sizes the container can measure: the page fills the window, and a
\* window that is not laid out measures nothing
WindowSize == [width |-> 2, height |-> 2]
NoSize == [width |-> 0, height |-> 0]
ContainerSizes == {NoSize, WindowSize}
\* the nodes, the pointers and the forces stay on the line y = 0
CoordX == 0..MaxCoord
CoordY == {0}
\* a pointer goes one unit beyond the nodes' range, and goes down on a node
\* at most one unit off its centre
PointerX == (0 - 1)..(MaxCoord + 1)
PointerY == {0}
GrabOffsets == {0 - 1, 0, 1}
\* what the forces may add to a free node's (x, y) in one tick
Velocities == {<<0, 0>>, <<1, 0>>, <<-1, 0>>}

(***************************************************************************)
(* Inputs.                                                                 *)
(***************************************************************************)
\* what the user types into the search field
TopicInputs == {<<>>, <<" ">>, <<" ", "a">>}

\* concepts the generative service may return: one named like a topic the
\* user can search, one whose relation is the central node's relation
Concepts ==
    {[concept |-> <<"a">>, relation |-> "cause", difficulty |-> 2,
      system |-> "Renal"],
     [concept |-> <<"b">>, relation |-> CentralRelation, difficulty |-> 5,
      system |-> "Skin"]}

RECURSIVE SeqsUpTo(_, _)
SeqsUpTo(S, n) ==
    IF n = 0 THEN {<<>>}
    ELSE LET shorter == SeqsUpTo(S, n - 1)
         IN  shorter \cup {Append(q, e) : q \in shorter, e \in S}

\* every list of concepts a successful service call may resolve to
ServiceResults == SeqsUpTo(Concepts, MaxConcepts)

(***************************************************************************)
(* String helpers.                                                         *)
(***************************************************************************)
RECURSIVE TrimStart(_)
TrimStart(s) ==
    IF s # <<>> /\ Head(s) = " " THEN TrimStart(Tail(s)) ELSE s

RECURSIVE TrimEnd(_)
TrimEnd(s) ==
    IF s # <<>> /\ s[Len(s)] = " " THEN TrimEnd(SubSeq(s, 1, Len(s) - 1))
    ELSE s

\* String.prototype.trim
Trim(s) == TrimEnd(TrimStart(s))

Min(a, b) == IF a < b THEN a ELSE b

\* the sequence q without its i-th element
RemoveAt(q, i) == SubSeq(q, 1, i - 1) \o SubSeq(q, i + 1, Len(q))

VARIABLES
    \* ---- App ----
    graphData,       \* [nodes, links]
    isLoading,
    selectedNode,    \* <<>> or <<node>>
    selectedIndex,   \* which object selectedNode is: the index of that node in
                     \* graphData.nodes, 0 for null or a node of a replaced graph
    topic,
    initialLoad,
    apiError,
    searchHistory,
    showHistory,
    mapCalls,        \* generateMedicalMap calls awaiting their response
    \* ---- MindMap ----
    d3Refs,          \* d3Refs.current is set
    simNodes,        \* x, y, fx, fy of graphData.nodes, by index
    simLinks,        \* the link force's links, endpoints resolved to node indexes
    renderError,     \* the update effect threw
    stepping,        \* the simulation's timer runs
    alphaTarget,     \* the simulation's target energy, in tenths
    gestures,        \* the drag gesture of each pointer
    oldNodes,        \* nodes of replaced graphs that a gesture still holds
    nodeElements,    \* the node containers in the node group, in document
                     \* order, each with its drag behaviour
    linkElements,    \* the number of lines in the link group
    containerSize,   \* what getBoundingClientRect measures on the container
    viewport,        \* the extent the simulation was built against, if built
    \* ---- SidePanel ----
    imageUrl,
    isImageLoading,
    quiz,
    isQuizLoading,
    selectedAnswer,
    isAnswerSubmitted,
    flashcards,
    currentFlashcardIndex,
    isFlashcardLoading,
    isFlashcardFlipped,
    imageCalls,      \* the concepts whose fetchConceptImage call is awaited (the
                     \* calls for one concept count as one)
    quizCall,        \* the generateQuizQuestion call awaited, if any
    flashcardCall,   \* the generateFlashcard call awaited, if any
    \* ---- getStableLinkId ----
    linkInput,       \* the endpoints of the link it is called on, and their forms
    stableLinkId,    \* what it returned for that link, if it was called
    ev,              \* the handler that ran last and its arguments
    lastSearch       \* the topic of the search that was started last and what
                     \* became of it, where the searches are observed

appVars == <<graphData, isLoading, selectedNode, selectedIndex, topic, initialLoad,
             apiError, searchHistory, showHistory, mapCalls>>
mapVars == <<d3Refs, simNodes, simLinks, renderError, stepping, alphaTarget,
             gestures, oldNodes, nodeElements, linkElements, containerSize,
             viewport>>
panelVars == <<imageUrl, isImageLoading, quiz, isQuizLoading, selectedAnswer,
               isAnswerSubmitted, flashcards, currentFlashcardIndex,
               isFlashcardLoading, isFlashcardFlipped, imageCalls, quizCall,
               flashcardCall>>
linkIdVars == <<linkInput, stableLinkId>>
vars == <<appVars, mapVars, panelVars, linkIdVars, ev, lastSearch>>

\* the flashcard section is drawn and reads flashcards[currentFlashcardIndex],
\* which is undefined: the render throws
panelRenderThrows ==
    /\ selectedNode # <<>>
    /\ flashcards # <<>>
    /\ ~isFlashcardLoading
    /\ currentFlashcardIndex \notin 0..(Len(flashcards) - 1)

\* React removes the whole page when an effect or a render has thrown: no
\* handler runs any more
Handled(e) ==
    /\ ~renderError
    /\ ~panelRenderThrows
    /\ ev' = e
    /\ UNCHANGED linkIdVars

\* a handler other than a search's start or response
Handle(e) ==
    /\ Handled(e)
    /\ UNCHANGED lastSearch

\* the searches are observed from a state where none was started yet, or
\* they are not observed at all
NoSearch == [outcome |-> "none", topic |-> <<>>]
Unobserved == [outcome |-> "unobserved", topic |-> <<>>]

\* the last started search once handleGenerateMap has called the service
\* with the topic t
started(t) ==
    IF lastSearch = Unobserved THEN lastSearch
    ELSE [outcome |-> "pending", topic |-> t]

\* the last started search once the i-th awaited call has settled: calls are
\* awaited in the order they were started, so that while the last started
\* one is awaited it is the last of mapCalls
settled(i, outcome) ==
    IF lastSearch.outcome = "pending" /\ i = Len(mapCalls)
    THEN [lastSearch EXCEPT !.outcome = outcome]
    ELSE lastSearch

(***************************************************************************)
(* App: processConcepts.                                                   *)
(***************************************************************************)
centralNode(centralTopic) ==
    [id |-> centralTopic,
     color |-> CentralColor,
     data |-> [concept |-> centralTopic, relation |-> CentralRelation,
               difficulty |-> 0, system |-> "Core"]]

conceptNode(concept) ==
    LET systemKey == IF concept.system # "" /\ concept.system \in DOMAIN systemColors
                     THEN concept.system ELSE "Default"
    IN  [id |-> concept.concept, color |-> systemColors[systemKey],
         data |-> concept]

\* a variant of conceptLink whose target is not the id of the concept's node
conceptLinkMisnamed(concept, centralTopic) ==
    [source |-> centralTopic, target |-> concept.concept \o <<"?">>]

conceptLink(concept, centralTopic) ==
    [source |-> centralTopic, target |-> concept.concept]

\* a variant of processConcepts that links each concept to the node before it
processConceptsChained(concepts, centralTopic) ==
    [nodes |-> <<centralNode(centralTopic)>> \o
               [i \in 1..Len(concepts) |-> conceptNode(concepts[i])],
     links |-> [i \in 1..Len(concepts) |->
                  [source |-> IF i = 1 THEN centralTopic ELSE concepts[i - 1].concept,
                   target |-> concepts[i].concept]]]

processConcepts(concepts, centralTopic) ==
    [nodes |-> <<centralNode(centralTopic)>> \o
               [i \in 1..Len(concepts) |-> conceptNode(concepts[i])],
     links |-> [i \in 1..Len(concepts) |-> conceptLink(concepts[i], centralTopic)]]

(***************************************************************************)
(* App: handleGenerateMap, split at its await.                             *)
(***************************************************************************)
\* (currentTopic || DEFAULT_TOPIC).trim()
topicToUse(currentTopic) ==
    Trim(IF currentTopic = <<>> THEN DEFAULT_TOPIC ELSE currentTopic)

\* a variant of newHistory that keeps the earlier entry of the topic
newHistoryUnfiltered(prevHistory, t) ==
    LET all == <<t>> \o prevHistory
    IN  SubSeq(all, 1, Min(HistoryCap, Len(all)))

\* a variant of newHistory that keeps every entry
newHistoryUncut(prevHistory, t) ==
    <<t>> \o SelectSeq(prevHistory, LAMBDA h : h # t)

\* [topicToUse, ...prevHistory.filter(t => t !== topicToUse)].slice(0, 10)
newHistory(prevHistory, t) ==
    LET all == <<t>> \o SelectSeq(prevHistory, LAMBDA h : h # t)
    IN  SubSeq(all, 1, Min(HistoryCap, Len(all)))

Event(type, t, add, concepts) ==
    [type |-> type, topic |-> t, addToHistory |-> add, concepts |-> concepts]

\* an event that records the handler alone
PlainEvent(type) == Event(type, <<>>, FALSE, <<>>)

\* the part of handleGenerateMap before the await; fieldTopic is what an
\* earlier setTopic of the same handler left in the field
GenerateMapStart(currentTopic, addToHistory, fieldTopic, type) ==
    LET t == topicToUse(currentTopic)
    IN  /\ Handled(PlainEvent(type))
        /\ IF t = <<>>
           THEN /\ topic' = fieldTopic
                /\ UNCHANGED <<isLoading, apiError, mapCalls, lastSearch>>
           ELSE /\ Len(mapCalls) < MaxInFlight
                /\ lastSearch' = started(t)
                /\ topic' = t
                /\ isLoading' = TRUE
                /\ apiError' = NoError
                /\ mapCalls' = Append(mapCalls, [topic |-> t, addToHistory |-> addToHistory])

\* the selection after handleGenerateMap(currentTopic) ran
SelectionAfterStart(currentTopic) ==
    IF topicToUse(currentTopic) = <<>> THEN selectedNode ELSE <<>>

IndexAfterStart(currentTopic) ==
    IF topicToUse(currentTopic) = <<>> THEN selectedIndex ELSE 0

(***************************************************************************)
(* MindMap: the update effect, which runs after every render that carries  *)
(* a new GraphData (and after the init effect on the first one).           *)
(***************************************************************************)
IdleGesture == [running |-> FALSE, cur |-> FALSE, node |-> 0, drag |-> 0,
                px |-> 0, py |-> 0, dx |-> 0, dy |-> 0, released |-> FALSE]

\* forceLink's find(nodeById, nodeId): the Map built from the node list keeps
\* the last node of an id; 0 stands for "node not found", which throws
find(nodes, nodeId) ==
    LET hits == {i \in 1..Len(nodes) : nodes[i].id = nodeId}
    IN  IF hits = {} THEN 0 ELSE CHOOSE i \in hits : \A j \in hits : j <= i

\* linkForce.links(data.links): every endpoint given as an id is resolved
resolveLinks(data) ==
    [k \in 1..Len(data.links) |->
        [source |-> find(data.nodes, data.links[k].source),
         target |-> find(data.nodes, data.links[k].target)]]

\* simulation.nodes(data.nodes) on nodes that carry no position yet: the
\* i-th node is placed by its index alone and is not pinned
initializeNode(i) ==
    [x |-> i % (MaxCoord + 1), y |-> 0, fx |-> Null, fy |-> Null]

\* the indexes of the current nodes that a running gesture holds, ascending
RECURSIVE Ascending(_)
Ascending(S) ==
    IF S = {} THEN <<>>
    ELSE LET m == CHOOSE i \in S : \A j \in S : i <= j
         IN  <<m>> \o Ascending(S \ {m})

heldNodes ==
    Ascending({gestures[p].node : p \in {q \in Pointers :
                  gestures[q].running /\ gestures[q].cur}})

PositionIn(q, e) == CHOOSE k \in 1..Len(q) : q[k] = e

\* an endpoint of a link: the id the link was built with, or the node object
\* that linkForce.links put in its place
asString(id) == [typeof |-> "string", value |-> id]
asNode(node) == [typeof |-> "object", value |-> node]

\* a variant of getStableLinkId that reads every endpoint as a node object
getStableLinkIdOfNodes(d) ==
    LET sourceId == IF d.source.typeof = "string" THEN <<>> ELSE d.source.value.id
        targetId == IF d.target.typeof = "string" THEN <<>> ELSE d.target.value.id
    IN  sourceId \o <<"-">> \o targetId

getStableLinkId(d) ==
    LET sourceId == IF d.source.typeof = "string" THEN d.source.value ELSE d.source.value.id
        targetId == IF d.target.typeof = "string" THEN d.target.value ELSE d.target.value.id
    IN  sourceId \o <<"-">> \o targetId

\* the link that getStableLinkId is called on: each endpoint is the id or a
\* node object of that id
endpoint(form, id) == IF form = "string" THEN asString(id) ELSE asNode(centralNode(id))

linkOf(input) == [source |-> endpoint(input.sourceForm, input.s),
                  target |-> endpoint(input.targetForm, input.t)]

\* the keys of the data the rendered elements are bound to: the nodes of the
\* graph drawn last, and its links as linkForce.links left them
groupNodeKeys == [j \in 1..Len(nodeElements) |-> graphData.nodes[j].id]

groupLinkKeys ==
    [k \in 1..linkElements |->
        getStableLinkId([source |-> asNode(graphData.nodes[simLinks[k].source]),
                         target |-> asNode(graphData.nodes[simLinks[k].target])])]

\* the keys of the new data
dataNodeKeys(data) == [i \in 1..Len(data.nodes) |-> data.nodes[i].id]

dataLinkKeys(data) ==
    [k \in 1..Len(data.links) |->
        getStableLinkId([source |-> asString(data.links[k].source),
                         target |-> asString(data.links[k].target)])]

\* selection.data(data, key): the element that the i-th datum is joined to, 0
\* when the datum enters.  Of the elements of one key the first is joined, and
\* it is joined to the first datum of that key
bindKey(groupKeys, dataKeys, i) ==
    LET hits == {j \in 1..Len(groupKeys) : groupKeys[j] = dataKeys[i]}
    IN  IF \E h \in 1..(i - 1) : dataKeys[h] = dataKeys[i] THEN 0
        ELSE IF hits = {} THEN 0
        ELSE CHOOSE j \in hits : \A h \in hits : j <= h

\* .join(enter, update, exit), in the order of the data: for the i-th datum
\* the element it is joined to, or an element that enters (0); the elements
\* that are not joined to a datum are removed
joinElements(groupKeys, dataKeys) ==
    <<>> \o [i \in 1..Len(dataKeys) |-> bindKey(groupKeys, dataKeys, i)]

\* the drag behaviours of the running gestures
PointerOrder == <<"mouse", "touch">>

gestureBehaviours ==
    LET drags(p) == IF gestures[p].running THEN <<gestures[p].drag>> ELSE <<>>
    IN  drags(PointerOrder[1]) \o drags(PointerOrder[2])

\* the drag behaviours of the node containers after the join, by the data's
\* index, then those of the running gestures: a container that stays keeps
\* its behaviour, the containers that enter get the behaviour made in this
\* reconciliation (0 here)
behaviours(joined) ==
    [i \in 1..Len(joined) |-> IF joined[i] = 0 THEN 0 ELSE nodeElements[joined[i]].drag]
    \o gestureBehaviours

\* the behaviours are told apart, not counted: each is named by its place
\* among the behaviours in use, in the order of their first use in q
named(q, drag) ==
    Cardinality({q[k] : k \in {f \in 1..Len(q) : \A h \in 1..(f - 1) : q[h] # drag}})

\* the init effect, which runs once, when MindMap mounts: both refs are set
\* by then, and the simulation is built against the measured extent
InitEffect == IF d3Refs THEN viewport ELSE Some(containerSize)

\* the update effect on data: the links and the node containers are joined
\* to the new data by key, the simulation is bound to the new nodes and
\* links and reheated; a node a gesture holds leaves the simulation with the
\* old graph, and the gesture keeps it
UpdateEffect(data) ==
    \E links \in {resolveLinks(data)},
       used \in {behaviours(joinElements(<<>> \o groupNodeKeys, <<>> \o dataNodeKeys(data)))} :
        /\ d3Refs' = TRUE
        /\ viewport' = InitEffect
        /\ UNCHANGED containerSize
        /\ linkElements' = Len(data.links)     \* a line per datum after the join
        /\ nodeElements' = [i \in 1..Len(data.nodes) |-> [drag |-> named(used, used[i])]]
        /\ simNodes' = [i \in 1..Len(data.nodes) |-> initializeNode(i)]
        /\ simLinks' = links
        /\ renderError' = \E k \in 1..Len(links) :
                             links[k].source = 0 \/ links[k].target = 0
        /\ stepping' = TRUE                   \* simulation.alpha(0.3).restart()
        /\ UNCHANGED alphaTarget
        /\ oldNodes' = oldNodes \o [k \in 1..Len(heldNodes) |-> simNodes[heldNodes[k]]]
        /\ gestures' = [p \in Pointers |->
                          IF gestures[p].running /\ gestures[p].cur
                          THEN [gestures[p] EXCEPT
                                  !.cur = FALSE,
                                  !.drag = named(used, @),
                                  !.node = Len(oldNodes)
                                           + PositionIn(heldNodes, gestures[p].node)]
                          ELSE IF gestures[p].running
                          THEN [gestures[p] EXCEPT !.drag = named(used, @)]
                          ELSE gestures[p]]

(***************************************************************************)
(* MindMap: the simulation's tick and the drag handlers.  d3-drag takes    *)
(* the dragged node as the gesture's subject: the event's position is the  *)
(* pointer's position plus the offset (dx, dy) between the node and the    *)
(* pointer when the gesture began.                                         *)
(***************************************************************************)
\* event.active of a start event and of an end event of pointer p's gesture:
\* the gestures besides it that the same drag behaviour runs.  The enter
\* callback makes a drag behaviour per reconciliation and gives it to the
\* containers that enter then
eventActive(p, drag) ==
    Cardinality({q \in Pointers \ {p} : gestures[q].running /\ gestures[q].drag = drag})

\* the pointers whose running gesture holds the i-th rendered node
holders(i) ==
    {p \in Pointers : gestures[p].running /\ gestures[p].cur /\ gestures[p].node = i}

\* event.x and event.y of a drag event of gesture g
eventX(g) == g.px + g.dx
eventY(g) == g.py + g.dy

\* a variant of tickCoordinate that lets the forces move a pinned node
tickCoordinateUnpinned(coordinate, velocity, fixed) ==
    coordinate + velocity

\* one coordinate of a node after a tick: a pin overrides what the forces add
tickCoordinate(coordinate, velocity, fixed) ==
    IF fixed = Null THEN coordinate + velocity ELSE fixed[1]

tickNode(n, v) ==
    [n EXCEPT !.x = tickCoordinate(n.x, v[1], n.fx),
              !.y = tickCoordinate(n.y, v[2], n.fy)]

\* the tick callback draws each node container at its node's (x, y)
renderedPosition(i) == <<simNodes[i].x, simNodes[i].y>>

\* one step of the simulation's timer; with the target energy at 0 the
\* simulation cools down and the step may be the last one
Tick ==
    /\ d3Refs
    /\ stepping
    /\ \E v \in [1..Len(simNodes) -> Velocities] :
          /\ \A i \in 1..Len(simNodes) :
                /\ tickNode(simNodes[i], v[i]).x \in CoordX
                /\ tickNode(simNodes[i], v[i]).y \in CoordY
          /\ simNodes' = [i \in 1..Len(simNodes) |-> tickNode(simNodes[i], v[i])]
    /\ \E last \in BOOLEAN :
          /\ last => alphaTarget = 0
          /\ stepping' = ~last
    /\ Handle(PlainEvent("tick"))
    /\ UNCHANGED <<d3Refs, simLinks, renderError, alphaTarget, gestures, oldNodes,
                   nodeElements, linkElements, containerSize, viewport>>
    /\ UNCHANGED appVars
    /\ UNCHANGED panelVars

\* the window is resized, hidden or shown: the container measures size from
\* now on
Resize(size) ==
    /\ containerSize # size
    /\ containerSize' = size
    /\ Handle(PlainEvent("resize"))
    /\ UNCHANGED <<d3Refs, simNodes, simLinks, renderError, stepping, alphaTarget,
                   gestures, oldNodes, nodeElements, linkElements, viewport>>
    /\ UNCHANGED appVars
    /\ UNCHANGED panelVars

\* dragstarted's writes to the node
startedNode(d) == [d EXCEPT !.fx = Some(d.x), !.fy = Some(d.y)]

\* dragged's writes to the node
draggedNode(d, g) == [d EXCEPT !.fx = Some(eventX(g)), !.fy = Some(eventY(g))]

\* dragended's writes to the node
endedNode(d) == [d EXCEPT !.fx = Null, !.fy = Null]

\* pointer p goes down at (px, py) on the container of the i-th node; the
\* Loader covers the map while isLoading
DragStart(p, i, px, py) ==
    /\ d3Refs
    /\ ~isLoading
    /\ ~gestures[p].running
    /\ i \in 1..Len(simNodes)
    /\ simNodes[i].x - px \in GrabOffsets
    /\ simNodes[i].y - py \in GrabOffsets
    /\ gestures' = [gestures EXCEPT ![p] =
                      [running |-> TRUE, cur |-> TRUE, node |-> i,
                       drag |-> nodeElements[i].drag,
                       px |-> px, py |-> py,
                       dx |-> simNodes[i].x - px, dy |-> simNodes[i].y - py,
                       released |-> FALSE]]
    /\ IF eventActive(p, nodeElements[i].drag) = 0
       THEN alphaTarget' = AlphaTargetRaised /\ stepping' = TRUE
       ELSE UNCHANGED <<alphaTarget, stepping>>
    /\ simNodes' = [simNodes EXCEPT ![i] = startedNode(simNodes[i])]
    /\ Handle(PlainEvent("dragStart"))
    /\ UNCHANGED <<d3Refs, simLinks, renderError, oldNodes, nodeElements,
                   linkElements, containerSize, viewport>>
    /\ UNCHANGED appVars
    /\ UNCHANGED panelVars

\* pointer p moves to (px, py), another place than it was at, while its
\* gesture runs
DragMove(p, px, py) ==
    LET g == [gestures[p] EXCEPT !.px = px, !.py = py]
    IN  /\ gestures[p].running
        /\ <<px, py>> # <<gestures[p].px, gestures[p].py>>
        /\ eventX(g) \in CoordX
        /\ eventY(g) \in CoordY
        /\ gestures' = [gestures EXCEPT ![p] = g]
        /\ IF g.cur
           THEN /\ simNodes' = [simNodes EXCEPT ![g.node] = draggedNode(simNodes[g.node], g)]
                /\ UNCHANGED oldNodes
           ELSE /\ oldNodes' = [oldNodes EXCEPT ![g.node] = draggedNode(oldNodes[g.node], g)]
                /\ UNCHANGED simNodes
        /\ Handle(PlainEvent("drag"))
        /\ UNCHANGED <<d3Refs, simLinks, renderError, stepping, alphaTarget,
                       nodeElements, linkElements, containerSize, viewport>>
        /\ UNCHANGED appVars
        /\ UNCHANGED panelVars

\* a variant of DragEnd that releases every node of the simulation
DragEndReleasingAll(p) ==
    LET g == gestures[p]
        sameNode(q) == /\ q # p
                       /\ gestures[q].running
                       /\ gestures[q].cur = g.cur
                       /\ gestures[q].node = g.node
        shared == \E q \in Pointers : sameNode(q)
        others == [q \in Pointers |->
                     IF q = p THEN IdleGesture
                     ELSE IF sameNode(q) THEN [gestures[q] EXCEPT !.released = TRUE]
                     ELSE gestures[q]]
    IN  /\ g.running
        /\ alphaTarget' = IF eventActive(p, g.drag) = 0 THEN 0 ELSE alphaTarget
        /\ IF g.cur
           THEN /\ simNodes' = [i \in 1..Len(simNodes) |-> endedNode(simNodes[i])]
                /\ gestures' = others
                /\ UNCHANGED oldNodes
           ELSE IF shared
           THEN /\ oldNodes' = [oldNodes EXCEPT ![g.node] = endedNode(oldNodes[g.node])]
                /\ gestures' = others
                /\ UNCHANGED simNodes
           ELSE /\ oldNodes' = RemoveAt(oldNodes, g.node)
                /\ gestures' = [q \in Pointers |->
                                  IF others[q].running /\ ~others[q].cur
                                     /\ others[q].node > g.node
                                  THEN [others[q] EXCEPT !.node = @ - 1]
                                  ELSE others[q]]
                /\ UNCHANGED simNodes
        /\ Handle(PlainEvent("dragEnd"))
        /\ UNCHANGED <<d3Refs, simLinks, renderError, stepping, nodeElements,
                       linkElements, containerSize, viewport>>
        /\ UNCHANGED appVars
        /\ UNCHANGED panelVars

\* pointer p goes up; a node of a replaced graph that no gesture holds any
\* more is dropped
DragEnd(p) ==
    LET g == gestures[p]
        sameNode(q) == /\ q # p
                       /\ gestures[q].running
                       /\ gestures[q].cur = g.cur
                       /\ gestures[q].node = g.node
        shared == \E q \in Pointers : sameNode(q)
        others == [q \in Pointers |->
                     IF q = p THEN IdleGesture
                     ELSE IF sameNode(q) THEN [gestures[q] EXCEPT !.released = TRUE]
                     ELSE gestures[q]]
    IN  /\ g.running
        /\ alphaTarget' = IF eventActive(p, g.drag) = 0 THEN 0 ELSE alphaTarget
        /\ IF g.cur
           THEN /\ simNodes' = [simNodes EXCEPT ![g.node] = endedNode(simNodes[g.node])]
                /\ gestures' = others
                /\ UNCHANGED oldNodes
           ELSE IF shared
           THEN /\ oldNodes' = [oldNodes EXCEPT ![g.node] = endedNode(oldNodes[g.node])]
                /\ gestures' = others
                /\ UNCHANGED simNodes
           ELSE /\ oldNodes' = RemoveAt(oldNodes, g.node)
                /\ gestures' = [q \in Pointers |->
                                  IF others[q].running /\ ~others[q].cur
                                     /\ others[q].node > g.node
                                  THEN [others[q] EXCEPT !.node = @ - 1]
                                  ELSE others[q]]
                /\ UNCHANGED simNodes
        /\ Handle(PlainEvent("dragEnd"))
        /\ UNCHANGED <<d3Refs, simLinks, renderError, stepping, nodeElements,
                       linkElements, containerSize, viewport>>
        /\ UNCHANGED appVars
        /\ UNCHANGED panelVars

(***************************************************************************)
(* SidePanel.  One instance lives as long as the page: App renders it      *)
(* without a key, and it draws nothing while selectedNode is null.         *)
(***************************************************************************)
\* the options of every quiz
QuizOptions == {"o1", "o2"}
\* the quizzes generateQuizQuestion may resolve to for a concept
Quizzes(concept) ==
    {[about |-> concept, correctAnswer |-> o] : o \in QuizOptions}
\* the flashcard generateFlashcard resolves to for a concept
Flashcard(concept) == [about |-> concept]
\* what fetchConceptImage may resolve to for a concept: its thumbnail or null
Images(concept) == {Null, Some(concept)}

\* the effect on [selectedNode], run when a node becomes the selection
SelectionEffect(node) ==
    /\ imageUrl' = Null
    /\ quiz' = Null
    /\ selectedAnswer' = Null
    /\ isAnswerSubmitted' = FALSE
    /\ flashcards' = <<>>
    /\ currentFlashcardIndex' = 0
    /\ isFlashcardFlipped' = FALSE
    /\ apiError' = NoError
    /\ isImageLoading' = TRUE
    /\ imageCalls' = imageCalls \cup {node.data.concept}
    /\ UNCHANGED <<isQuizLoading, isFlashcardLoading, quizCall, flashcardCall>>

\* getImage after its await: the call for concept resolves with url
ImageResponse(concept, url) ==
    /\ concept \in imageCalls
    /\ imageUrl' = url
    /\ isImageLoading' = FALSE
    /\ imageCalls' = imageCalls \ {concept}
    /\ Handle(Event("imageResponse", concept, FALSE, <<>>))
    /\ UNCHANGED <<quiz, isQuizLoading, selectedAnswer, isAnswerSubmitted,
                   flashcards, currentFlashcardIndex, isFlashcardLoading,
                   isFlashcardFlipped, quizCall, flashcardCall>>
    /\ UNCHANGED appVars
    /\ UNCHANGED mapVars

\* handleGenerateQuiz up to its await; its button is disabled={isQuizLoading}
GenerateQuiz ==
    /\ selectedNode # <<>>
    /\ ~isQuizLoading
    /\ isQuizLoading' = TRUE
    /\ quiz' = Null
    /\ selectedAnswer' = Null
    /\ isAnswerSubmitted' = FALSE
    /\ apiError' = NoError
    /\ quizCall' = Some(selectedNode[1].data.concept)
    /\ Handle(Event("generateQuiz", selectedNode[1].data.concept, FALSE, <<>>))
    /\ UNCHANGED <<imageUrl, isImageLoading, flashcards, currentFlashcardIndex,
                   isFlashcardLoading, isFlashcardFlipped, imageCalls, flashcardCall>>
    /\ UNCHANGED <<graphData, isLoading, selectedNode, selectedIndex, topic, initialLoad,
                   searchHistory, showHistory, mapCalls>>
    /\ UNCHANGED mapVars

\* handleGenerateQuiz after its await, the call resolved with quizQuestion
QuizSuccess(quizQuestion) ==
    /\ quizCall # Null
    /\ quizQuestion \in Quizzes(quizCall[1])
    /\ quiz' = Some(quizQuestion)
    /\ isQuizLoading' = FALSE
    /\ quizCall' = Null
    /\ Handle(Event("quizSuccess", quizCall[1], FALSE, <<>>))
    /\ UNCHANGED <<imageUrl, isImageLoading, selectedAnswer, isAnswerSubmitted,
                   flashcards, currentFlashcardIndex, isFlashcardLoading,
                   isFlashcardFlipped, imageCalls, flashcardCall>>
    /\ UNCHANGED appVars
    /\ UNCHANGED mapVars

\* handleGenerateQuiz after its await, the call rejected
QuizFail ==
    /\ quizCall # Null
    /\ apiError' = QuizErrorMessage
    /\ isQuizLoading' = FALSE
    /\ quizCall' = Null
    /\ Handle(Event("quizFail", quizCall[1], FALSE, <<>>))
    /\ UNCHANGED <<imageUrl, isImageLoading, quiz, selectedAnswer, isAnswerSubmitted,
                   flashcards, currentFlashcardIndex, isFlashcardLoading,
                   isFlashcardFlipped, imageCalls, flashcardCall>>
    /\ UNCHANGED <<graphData, isLoading, selectedNode, selectedIndex, topic, initialLoad,
                   searchHistory, showHistory, mapCalls>>
    /\ UNCHANGED mapVars

\* handleGenerateFlashcard up to its await; its button is
\* disabled={isFlashcardLoading}.  The closure keeps the flashcards of the
\* render it was made in.
GenerateFlashcard ==
    /\ selectedNode # <<>>
    /\ ~isFlashcardLoading
    /\ Len(flashcards) < MaxCards
    /\ isFlashcardLoading' = TRUE
    /\ isFlashcardFlipped' = FALSE
    /\ apiError' = NoError
    /\ flashcardCall' = Some([concept |-> selectedNode[1].data.concept,
                              length |-> Len(flashcards)])
    /\ Handle(Event("generateFlashcard", selectedNode[1].data.concept, FALSE, <<>>))
    /\ UNCHANGED <<imageUrl, isImageLoading, quiz, isQuizLoading, selectedAnswer,
                   isAnswerSubmitted, flashcards, currentFlashcardIndex,
                   imageCalls, quizCall>>
    /\ UNCHANGED <<graphData, isLoading, selectedNode, selectedIndex, topic, initialLoad,
                   searchHistory, showHistory, mapCalls>>
    /\ UNCHANGED mapVars

\* handleGenerateFlashcard after its await, the call resolved with a card
FlashcardSuccess ==
    /\ flashcardCall # Null
    /\ flashcards' = Append(flashcards, Flashcard(flashcardCall[1].concept))
    /\ currentFlashcardIndex' = flashcardCall[1].length
    /\ isFlashcardLoading' = FALSE
    /\ flashcardCall' = Null
    /\ Handle(Event("flashcardSuccess", flashcardCall[1].concept, FALSE, <<>>))
    /\ UNCHANGED <<imageUrl, isImageLoading, quiz, isQuizLoading, selectedAnswer,
                   isAnswerSubmitted, isFlashcardFlipped, imageCalls, quizCall>>
    /\ UNCHANGED appVars
    /\ UNCHANGED mapVars

\* handleGenerateFlashcard after its await, the call rejected
FlashcardFail ==
    /\ flashcardCall # Null
    /\ apiError' = FlashcardErrorMessage
    /\ isFlashcardLoading' = FALSE
    /\ flashcardCall' = Null
    /\ Handle(Event("flashcardFail", flashcardCall[1].concept, FALSE, <<>>))
    /\ UNCHANGED <<imageUrl, isImageLoading, quiz, isQuizLoading, selectedAnswer,
                   isAnswerSubmitted, flashcards, currentFlashcardIndex,
                   isFlashcardFlipped, imageCalls, quizCall>>
    /\ UNCHANGED <<graphData, isLoading, selectedNode, selectedIndex, topic, initialLoad,
                   searchHistory, showHistory, mapCalls>>
    /\ UNCHANGED mapVars

\* the quiz section is drawn
quizShown == selectedNode # <<>> /\ quiz # Null /\ ~isQuizLoading

\* the verdict drawn under a submitted answer
answerShown ==
    IF selectedAnswer = Some(quiz[1].correctAnswer) THEN "Correct!" ELSE "Incorrect."

\* a variant of SubmitAnswer whose button is enabled with nothing selected
SubmitAnswerUnselected ==
    /\ quizShown
    /\ ~isAnswerSubmitted
    /\ isAnswerSubmitted' = TRUE
    /\ Handle(PlainEvent("submitAnswer"))
    /\ UNCHANGED <<imageUrl, isImageLoading, quiz, isQuizLoading, selectedAnswer,
                   flashcards, currentFlashcardIndex, isFlashcardLoading,
                   isFlashcardFlipped, imageCalls, quizCall, flashcardCall>>
    /\ UNCHANGED appVars
    /\ UNCHANGED mapVars

\* the flashcard deck is drawn
deckShown == selectedNode # <<>> /\ flashcards # <<>> /\ ~isFlashcardLoading

\* handleAnswerSelect; the option buttons are disabled={isAnswerSubmitted}
AnswerSelect(option) ==
    /\ quizShown
    /\ ~isAnswerSubmitted
    /\ selectedAnswer' = Some(option)
    /\ Handle(PlainEvent("answerSelect"))
    /\ UNCHANGED <<imageUrl, isImageLoading, quiz, isQuizLoading, isAnswerSubmitted,
                   flashcards, currentFlashcardIndex, isFlashcardLoading,
                   isFlashcardFlipped, imageCalls, quizCall, flashcardCall>>
    /\ UNCHANGED appVars
    /\ UNCHANGED mapVars

\* handleSubmitAnswer; its button is drawn until the answer is submitted and
\* is disabled={!selectedAnswer}
SubmitAnswer ==
    /\ quizShown
    /\ ~isAnswerSubmitted
    /\ selectedAnswer # Null
    /\ isAnswerSubmitted' = TRUE
    /\ Handle(PlainEvent("submitAnswer"))
    /\ UNCHANGED <<imageUrl, isImageLoading, quiz, isQuizLoading, selectedAnswer,
                   flashcards, currentFlashcardIndex, isFlashcardLoading,
                   isFlashcardFlipped, imageCalls, quizCall, flashcardCall>>
    /\ UNCHANGED appVars
    /\ UNCHANGED mapVars

\* handlePrevFlashcard; its button is drawn with more than one card and is
\* disabled={currentFlashcardIndex === 0}
PrevFlashcard ==
    /\ deckShown
    /\ Len(flashcards) > 1
    /\ currentFlashcardIndex # 0
    /\ IF currentFlashcardIndex > 0
       THEN /\ currentFlashcardIndex' = currentFlashcardIndex - 1
            /\ isFlashcardFlipped' = FALSE
       ELSE UNCHANGED <<currentFlashcardIndex, isFlashcardFlipped>>
    /\ Handle(PlainEvent("prevFlashcard"))
    /\ UNCHANGED <<imageUrl, isImageLoading, quiz, isQuizLoading, selectedAnswer,
                   isAnswerSubmitted, flashcards, isFlashcardLoading, imageCalls,
                   quizCall, flashcardCall>>
    /\ UNCHANGED appVars
    /\ UNCHANGED mapVars

\* handleNextFlashcard; its button is drawn with more than one card and is
\* disabled={currentFlashcardIndex === flashcards.length - 1}
NextFlashcard ==
    /\ deckShown
    /\ Len(flashcards) > 1
    /\ currentFlashcardIndex # Len(flashcards) - 1
    /\ IF currentFlashcardIndex < Len(flashcards) - 1
       THEN /\ currentFlashcardIndex' = currentFlashcardIndex - 1
            /\ isFlashcardFlipped' = FALSE
       ELSE UNCHANGED <<currentFlashcardIndex, isFlashcardFlipped>>
    /\ Handle(PlainEvent("nextFlashcard"))
    /\ UNCHANGED <<imageUrl, isImageLoading, quiz, isQuizLoading, selectedAnswer,
                   isAnswerSubmitted, flashcards, isFlashcardLoading, imageCalls,
                   quizCall, flashcardCall>>
    /\ UNCHANGED appVars
    /\ UNCHANGED mapVars

\* a click on the card flips it
FlipFlashcard ==
    /\ deckShown
    /\ isFlashcardFlipped' = ~isFlashcardFlipped
    /\ Handle(PlainEvent("flipFlashcard"))
    /\ UNCHANGED <<imageUrl, isImageLoading, quiz, isQuizLoading, selectedAnswer,
                   isAnswerSubmitted, flashcards, currentFlashcardIndex,
                   isFlashcardLoading, imageCalls, quizCall, flashcardCall>>
    /\ UNCHANGED appVars
    /\ UNCHANGED mapVars

(***************************************************************************)
(* App: the handlers.                                                      *)
(***************************************************************************)
\* onChange of the search field
TypeTopic(s) ==
    /\ topic' = s
    /\ Handle(PlainEvent("type"))
    /\ UNCHANGED <<graphData, isLoading, selectedNode, selectedIndex, initialLoad, apiError,
                   searchHistory, showHistory, mapCalls>>
    /\ UNCHANGED mapVars
    /\ UNCHANGED panelVars

\* handleSubmit: the form is submitted from the keyboard or its button
Submit ==
    /\ GenerateMapStart(topic, TRUE, topic, "submit")
    /\ selectedNode' = SelectionAfterStart(topic)
    /\ selectedIndex' = IndexAfterStart(topic)
    /\ UNCHANGED <<graphData, initialLoad, searchHistory, showHistory>>
    /\ UNCHANGED mapVars
    /\ UNCHANGED panelVars

\* the Explore button of the welcome screen
Explore ==
    /\ initialLoad
    /\ GenerateMapStart(topic, TRUE, topic, "explore")
    /\ selectedNode' = SelectionAfterStart(topic)
    /\ selectedIndex' = IndexAfterStart(topic)
    /\ UNCHANGED <<graphData, initialLoad, searchHistory, showHistory>>
    /\ UNCHANGED mapVars
    /\ UNCHANGED panelVars

\* a variant of HistoryClick that leaves addToHistory at its default
HistoryClickAdding(i) ==
    /\ showHistory
    /\ i \in 1..Len(searchHistory)
    /\ GenerateMapStart(searchHistory[i], TRUE, searchHistory[i], "history")
    /\ selectedNode' = SelectionAfterStart(searchHistory[i])
    /\ selectedIndex' = IndexAfterStart(searchHistory[i])
    /\ UNCHANGED <<graphData, initialLoad, searchHistory, showHistory>>
    /\ UNCHANGED mapVars
    /\ UNCHANGED panelVars

\* handleHistoryClick on the i-th entry of the open history list
HistoryClick(i) ==
    /\ showHistory
    /\ i \in 1..Len(searchHistory)
    /\ GenerateMapStart(searchHistory[i], FALSE, searchHistory[i], "history")
    /\ selectedNode' = SelectionAfterStart(searchHistory[i])
    /\ selectedIndex' = IndexAfterStart(searchHistory[i])
    /\ UNCHANGED <<graphData, initialLoad, searchHistory, showHistory>>
    /\ UNCHANGED mapVars
    /\ UNCHANGED panelVars

\* the history button
ToggleHistory ==
    /\ showHistory' = ~showHistory
    /\ Handle(PlainEvent("toggleHistory"))
    /\ UNCHANGED <<graphData, isLoading, selectedNode, selectedIndex, topic, initialLoad,
                   apiError, searchHistory, mapCalls>>
    /\ UNCHANGED mapVars
    /\ UNCHANGED panelVars

\* handleClickOutside: a mousedown outside the search container
ClickOutside ==
    /\ showHistory' = FALSE
    /\ Handle(PlainEvent("clickOutside"))
    /\ UNCHANGED <<graphData, isLoading, selectedNode, selectedIndex, topic, initialLoad,
                   apiError, searchHistory, mapCalls>>
    /\ UNCHANGED mapVars
    /\ UNCHANGED panelVars

\* handleClosePanel, from the panel's close button
ClosePanel ==
    /\ selectedNode # <<>>
    /\ selectedNode' = <<>>
    /\ selectedIndex' = 0
    /\ Handle(PlainEvent("closePanel"))
    /\ UNCHANGED <<graphData, isLoading, topic, initialLoad, apiError,
                   searchHistory, showHistory, mapCalls>>
    /\ UNCHANGED mapVars
    /\ UNCHANGED panelVars

\* handleFocusClick of the panel: handleBreakAndStartNewMap, then onClose
FocusClick ==
    /\ selectedNode # <<>>
    /\ selectedNode[1].data.relation # CentralRelation    \* disabled={isCentralTopic}
    /\ GenerateMapStart(selectedNode[1].data.concept, TRUE, topic, "focus")
    /\ selectedNode' = <<>>
    /\ selectedIndex' = 0
    /\ UNCHANGED <<graphData, initialLoad, searchHistory, showHistory>>
    /\ UNCHANGED mapVars
    /\ UNCHANGED panelVars

\* onClose of the notification (its button or its timer)
NotificationClose ==
    /\ apiError # NoError
    /\ apiError' = NoError
    /\ Handle(PlainEvent("notificationClose"))
    /\ UNCHANGED <<graphData, isLoading, selectedNode, selectedIndex, topic, initialLoad,
                   searchHistory, showHistory, mapCalls>>
    /\ UNCHANGED mapVars
    /\ UNCHANGED panelVars

\* handleNodeClick on the i-th rendered node; the Loader covers the map
\* while isLoading, and the panel's selection effect clears the error
NodeClick(i) ==
    /\ ~initialLoad
    /\ ~isLoading
    /\ i \in 1..Len(graphData.nodes)
    /\ selectedNode' = <<graphData.nodes[i]>>
    /\ selectedIndex' = i
    /\ IF selectedIndex # i
       THEN SelectionEffect(graphData.nodes[i])
       ELSE UNCHANGED <<apiError, panelVars>>
    /\ showHistory' = FALSE
    /\ Handle(PlainEvent("nodeClick"))
    /\ UNCHANGED <<graphData, isLoading, topic, initialLoad, searchHistory,
                   mapCalls>>
    /\ UNCHANGED mapVars

\* the i-th call resolves with concepts: the try block and the finally block
MapSuccess(i, concepts) ==
    /\ i \in 1..Len(mapCalls)
    /\ graphData' = processConcepts(concepts, mapCalls[i].topic)
    /\ searchHistory' = IF mapCalls[i].addToHistory
                        THEN newHistory(searchHistory, mapCalls[i].topic)
                        ELSE searchHistory
    /\ isLoading' = FALSE
    /\ initialLoad' = FALSE
    /\ showHistory' = FALSE
    /\ mapCalls' = RemoveAt(mapCalls, i)
    /\ Handled(Event("mapSuccess", mapCalls[i].topic, mapCalls[i].addToHistory, concepts))
    /\ lastSearch' = settled(i, "succeeded")
    /\ selectedIndex' = 0
    /\ UNCHANGED <<selectedNode, topic, apiError>>
    /\ UpdateEffect(graphData')
    /\ UNCHANGED panelVars

\* a variant of MapFail that keeps the graph of the search before
MapFailKeepingGraph(i) ==
    /\ i \in 1..Len(mapCalls)
    /\ apiError' = MapErrorMessage
    /\ isLoading' = FALSE
    /\ initialLoad' = FALSE
    /\ showHistory' = FALSE
    /\ mapCalls' = RemoveAt(mapCalls, i)
    /\ Handled(Event("mapFail", mapCalls[i].topic, mapCalls[i].addToHistory, <<>>))
    /\ lastSearch' = settled(i, "failed")
    /\ UNCHANGED <<graphData, selectedNode, selectedIndex, topic, searchHistory>>
    /\ UNCHANGED mapVars
    /\ UNCHANGED panelVars

\* the i-th call rejects: the catch block and the finally block
MapFail(i) ==
    /\ i \in 1..Len(mapCalls)
    /\ apiError' = MapErrorMessage
    /\ graphData' = EmptyGraph
    /\ isLoading' = FALSE
    /\ initialLoad' = FALSE
    /\ showHistory' = FALSE
    /\ mapCalls' = RemoveAt(mapCalls, i)
    /\ Handled(Event("mapFail", mapCalls[i].topic, mapCalls[i].addToHistory, <<>>))
    /\ lastSearch' = settled(i, "failed")
    /\ selectedIndex' = 0
    /\ UNCHANGED <<selectedNode, topic, searchHistory>>
    /\ UpdateEffect(graphData')
    /\ UNCHANGED panelVars

(***************************************************************************)
(* The controller's specification.                                         *)
(***************************************************************************)
AppInit ==
    /\ graphData = EmptyGraph
    /\ isLoading = FALSE
    /\ selectedNode = <<>>
    /\ selectedIndex = 0
    /\ topic = <<>>
    /\ initialLoad = TRUE
    /\ apiError = NoError
    /\ searchHistory = <<>>
    /\ showHistory = FALSE
    /\ mapCalls = <<>>

MapInit ==
    /\ d3Refs = FALSE
    /\ simNodes = <<>>
    /\ simLinks = <<>>
    /\ renderError = FALSE
    /\ stepping = FALSE
    /\ alphaTarget = 0
    /\ gestures = [p \in Pointers |-> IdleGesture]
    /\ oldNodes = <<>>
    /\ nodeElements = <<>>
    /\ linkElements = 0
    /\ containerSize = WindowSize
    /\ viewport = Null

PanelInit ==
    /\ imageUrl = Null
    /\ isImageLoading = FALSE
    /\ quiz = Null
    /\ isQuizLoading = FALSE
    /\ selectedAnswer = Null
    /\ isAnswerSubmitted = FALSE
    /\ flashcards = <<>>
    /\ currentFlashcardIndex = 0
    /\ isFlashcardLoading = FALSE
    /\ isFlashcardFlipped = FALSE
    /\ imageCalls = {}
    /\ quizCall = Null
    /\ flashcardCall = Null

LinkIds == {<<"a">>, <<"b">>, <<"a", "-", "b">>, <<"b", "-", "a">>, DEFAULT_TOPIC}
EndpointForms == {"string", "object"}
LinkInputs == [s : LinkIds, t : LinkIds,
               sourceForm : EndpointForms, targetForm : EndpointForms]

LinkIdInit ==
    /\ linkInput = [s |-> DEFAULT_TOPIC, t |-> <<"a">>,
                    sourceForm |-> "string", targetForm |-> "string"]
    /\ stableLinkId = Null

Init ==
    /\ AppInit
    /\ MapInit
    /\ PanelInit
    /\ LinkIdInit
    /\ ev = Event("init", <<>>, FALSE, <<>>)
    /\ lastSearch = Unobserved

Next ==
    \/ \E s \in TopicInputs : TypeTopic(s)
    \/ Submit
    \/ Explore
    \/ NotificationClose
    \/ \E i \in 1..MaxInFlight, concepts \in ServiceResults : MapSuccess(i, concepts)
    \/ \E i \in 1..MaxInFlight : MapFail(i)

Spec == Init /\ [][Next]_vars

(***************************************************************************)
(* The renderer's specification: the searches started from the welcome     *)
(* screen replace the graph while the simulation ticks and nodes are       *)
(* dragged.                                                                *)
(***************************************************************************)
\* what the service returns in it: one concept
DragResults == {<<[concept |-> <<"a">>, relation |-> "cause", difficulty |-> 2,
                   system |-> "Renal"]>>}

NextDrag ==
    \/ Explore
    \/ \E i \in 1..MaxInFlight, concepts \in DragResults : MapSuccess(i, concepts)
    \/ Tick
    \/ \E p \in Pointers, i \in 1..2, px \in PointerX, py \in PointerY : DragStart(p, i, px, py)
    \/ \E p \in Pointers, px \in PointerX, py \in PointerY : DragMove(p, px, py)
    \/ \E p \in Pointers : DragEnd(p)

SpecDrag == Init /\ [][NextDrag]_vars

(***************************************************************************)
(* The specification of getStableLinkId: it is called on a link of any     *)
(* two ids, each endpoint in either form, and then on another one.         *)
(***************************************************************************)
\* the key function is called on the link
CallGetStableLinkId ==
    /\ stableLinkId = Null
    /\ stableLinkId' = Some(getStableLinkId(linkOf(linkInput)))
    /\ ev' = PlainEvent("getStableLinkId")
    /\ UNCHANGED <<appVars, mapVars, panelVars, linkInput, lastSearch>>

\* the next link it will be called on
NextLink(input) ==
    /\ stableLinkId # Null
    /\ linkInput' = input
    /\ stableLinkId' = Null
    /\ ev' = PlainEvent("link")
    /\ UNCHANGED <<appVars, mapVars, panelVars, lastSearch>>

InitLinkId ==
    /\ AppInit
    /\ MapInit
    /\ PanelInit
    /\ linkInput \in LinkInputs
    /\ stableLinkId = Null
    /\ ev = Event("init", <<>>, FALSE, <<>>)
    /\ lastSearch = Unobserved

NextLinkId ==
    \/ CallGetStableLinkId
    \/ \E input \in LinkInputs : NextLink(input)

SpecLinkId == InitLinkId /\ [][NextLinkId]_vars

(***************************************************************************)
(* The reconciliation specification: the searches from the welcome screen  *)
(* end in graphs of one node, of two nodes or of none, in a window that    *)
(* may measure nothing when the map mounts; the nodes are grabbed and      *)
(* released where they stand.                                              *)
(***************************************************************************)
ReconcileResults == {<<>>} \cup DragResults

NextReconcile ==
    \/ \E size \in ContainerSizes : Resize(size)
    \/ Explore
    \/ \E i \in 1..MaxInFlight, concepts \in ReconcileResults : MapSuccess(i, concepts)
    \/ \E i \in 1..MaxInFlight : MapFail(i)
    \/ \E p \in Pointers, i \in 1..2, px \in PointerX, py \in PointerY : DragStart(p, i, px, py)
    \/ \E p \in Pointers : DragEnd(p)

SpecReconcile == Init /\ [][NextReconcile]_vars

(***************************************************************************)
(* The side panel's specification: one search from the welcome screen      *)
(* shows a graph of two nodes; its nodes are selected and studied.         *)
(***************************************************************************)
PanelResults == {<<[concept |-> <<"a">>, relation |-> "cause", difficulty |-> 2,
                    system |-> "Renal"]>>}

PanelConcepts == {DEFAULT_TOPIC, <<"a">>}

NextPanel ==
    \/ Explore
    \/ \E i \in 1..MaxInFlight, concepts \in PanelResults : MapSuccess(i, concepts)
    \/ \E i \in 1..2 : NodeClick(i)
    \/ ClosePanel
    \/ \E name \in PanelConcepts : \E url \in Images(name) : ImageResponse(name, url)
    \/ GenerateQuiz
    \/ \E name \in PanelConcepts : \E q \in Quizzes(name) : QuizSuccess(q)
    \/ QuizFail
    \/ GenerateFlashcard
    \/ FlashcardSuccess
    \/ FlashcardFail
    \/ \E o \in QuizOptions : AnswerSelect(o)
    \/ SubmitAnswer
    \/ PrevFlashcard
    \/ NextFlashcard
    \/ FlipFlashcard

SpecPanel == Init /\ [][NextPanel]_vars

(***************************************************************************)
(* The history's specification: a user with a mouse, whom the Loader's     *)
(* overlay keeps from starting a search during another one, searches more  *)
(* topics than the history holds, one new topic after another, comes back  *)
(* to the latest entry of the history, and focuses on the concept the      *)
(* service returns, which is named like the first topic.                   *)
(***************************************************************************)
\* the k-th topic: "t" followed by k times "i"
Filler(k) == <<"t">> \o [j \in 1..k |-> "i"]

Range(q) == {q[j] : j \in 1..Len(q)}

\* the user types the k-th topic once the (k-1)-th one was searched, and
\* before the k-th one or a later one is
Typeable(k) ==
    /\ \A j \in k..MaxTopics : Filler(j) \notin Range(searchHistory)
    /\ k > 1 => Filler(k - 1) \in Range(searchHistory)

HistoryResults == {<<[concept |-> Filler(1), relation |-> "cause", difficulty |-> 2,
                      system |-> "Renal"]>>}

NextHistory ==
    \/ \E k \in 1..MaxTopics : Typeable(k) /\ TypeTopic(Filler(k))
    \/ ~isLoading /\ Submit
    \/ ToggleHistory
    \/ ClickOutside
    \/ ~isLoading /\ HistoryClick(1)
    \/ NodeClick(2)
    \/ ClosePanel
    \/ ~isLoading /\ FocusClick
    \/ \E i \in 1..MaxInFlight, concepts \in HistoryResults : MapSuccess(i, concepts)
    \/ \E i \in 1..MaxInFlight : MapFail(i)

SpecHistory == Init /\ [][NextHistory]_vars

(***************************************************************************)
(* The specification of the history list in use: a few topics are          *)
(* searched from the keyboard, also while a search is awaited, and any     *)
(* entry of the open list is clicked; the searches succeed or fail.        *)
(***************************************************************************)
ClickTopics == {<<"a">>, <<"b">>}
ClickResults == {<<>>}

NextHistoryClick ==
    \/ \E s \in ClickTopics : TypeTopic(s)
    \/ Submit
    \/ ToggleHistory
    \/ \E i \in 1..HistoryCap : ~isLoading /\ HistoryClick(i)
    \/ \E i \in 1..MaxInFlight, concepts \in ClickResults : MapSuccess(i, concepts)
    \/ \E i \in 1..MaxInFlight : MapFail(i)

SpecHistoryClick == Init /\ [][NextHistoryClick]_vars

(***************************************************************************)
(* The same use of the page with the searches observed: which search was   *)
(* started last, and whether it succeeded.                                 *)
(***************************************************************************)
InitSearches ==
    /\ AppInit
    /\ MapInit
    /\ PanelInit
    /\ LinkIdInit
    /\ ev = Event("init", <<>>, FALSE, <<>>)
    /\ lastSearch = NoSearch

SpecSearches == InitSearches /\ [][NextHistoryClick]_vars

(***************************************************************************)
(* The specification of the selection: searches are started from the       *)
(* welcome screen and from the keyboard, they succeed with no concept or   *)
(* with one, or fail; the nodes on display are clicked and the panel is    *)
(* closed.                                                                 *)
(***************************************************************************)
SelectResults == {<<>>} \cup PanelResults

NextSelect ==
    \/ Explore
    \/ Submit
    \/ \E i \in 1..MaxInFlight, concepts \in SelectResults : MapSuccess(i, concepts)
    \/ \E i \in 1..MaxInFlight : MapFail(i)
    \/ \E i \in 1..2 : NodeClick(i)
    \/ ClosePanel

SpecSelect == Init /\ [][NextSelect]_vars

(***************************************************************************)
(* Properties of the graph a search builds (Spec).                         *)
(***************************************************************************)
\* C1: after every replacement of the graph and the reconciliation that
\* follows it, the renderer resolved every link of the current graph, and
\* both endpoints are nodes of the current node set that carry the ids the
\* link names
C1_NoDanglingLink ==
    /\ ~renderError
    /\ Len(simNodes) = Len(graphData.nodes)
    /\ Len(simLinks) = Len(graphData.links)
    /\ \A k \in 1..Len(simLinks) :
          /\ simLinks[k].source \in 1..Len(graphData.nodes)
          /\ simLinks[k].target \in 1..Len(graphData.nodes)
          /\ graphData.nodes[simLinks[k].source].id = graphData.links[k].source
          /\ graphData.nodes[simLinks[k].target].id = graphData.links[k].target

\* a search succeeded with as many concepts as the service returns at most,
\* and the renderer holds their links
C1_Witness ==
    /\ ev.type = "mapSuccess"
    /\ Len(ev.concepts) = MaxConcepts
    /\ Len(simLinks) = MaxConcepts
    /\ ~renderError

\* C2: after a successful search the graph holds exactly one node whose
\* relation is "Central Topic", and that node has a link to every other node
C2_OneCentralNode ==
    ev.type = "mapSuccess" =>
        LET central == {i \in 1..Len(graphData.nodes) :
                          graphData.nodes[i].data.relation = CentralRelation}
        IN  /\ Cardinality(central) = 1
            /\ \A i \in central : \A j \in 1..Len(graphData.nodes) \ {i} :
                  \E k \in 1..Len(simLinks) :
                     simLinks[k].source = i /\ simLinks[k].target = j

\* C3: no two nodes of the graph share an id
C3_DistinctNodeIds ==
    \A i, j \in 1..Len(graphData.nodes) :
        i # j => graphData.nodes[i].id # graphData.nodes[j].id

\* C4: a successful search for topic t that returned n concepts leaves a
\* star: n + 1 nodes, the central node with id t first and then the concepts
\* in order, and n links, the i-th one from t to the i-th concept's name
C4_Star ==
    ev.type = "mapSuccess" =>
        LET n == Len(ev.concepts)
        IN  /\ Len(graphData.nodes) = n + 1
            /\ graphData.nodes[1].id = ev.topic
            /\ \A i \in 1..n : graphData.nodes[i + 1].id = ev.concepts[i].concept
            /\ Len(graphData.links) = n
            /\ \A i \in 1..n :
                  /\ graphData.links[i].source = ev.topic
                  /\ graphData.links[i].target = ev.concepts[i].concept

\* a search that returned two different concepts succeeded
C4_Witness ==
    /\ ev.type = "mapSuccess"
    /\ Len(ev.concepts) = MaxConcepts
    /\ ev.concepts[1].concept # ev.concepts[2].concept
    /\ Len(graphData.links) = MaxConcepts

\* C7: a failed search leaves the history as it was, empties the graph, sets
\* an error message and clears the loading flag
C7_FailureClearsGraph ==
    [][ev'.type = "mapFail" =>
          /\ searchHistory' = searchHistory
          /\ graphData' = EmptyGraph
          /\ simNodes' = <<>>
          /\ apiError' = MapErrorMessage
          /\ ~isLoading']_vars

\* a search failed after an earlier one had filled the history and the graph
C7_Witness ==
    /\ ev.type = "mapFail"
    /\ searchHistory # <<>>
    /\ graphData = EmptyGraph
    /\ apiError = MapErrorMessage

C6_MostRecentFirst ==
    [][(ev'.type = "mapSuccess" /\ ev'.addToHistory) =>
          LET rest == SelectSeq(searchHistory, LAMBDA h : h # ev'.topic)
          IN  /\ searchHistory'[1] = ev'.topic
              /\ Len(searchHistory') = Min(HistoryCap, 1 + Len(rest))
              /\ \A j \in 2..Len(searchHistory') : searchHistory'[j] = rest[j - 1]]_vars

\* the search of the last new topic succeeded and pushed the oldest entry
\* out of the full history
C6_Witness ==
    /\ ev.type = "mapSuccess"
    /\ ev.addToHistory
    /\ ev.topic = Filler(MaxTopics)
    /\ Len(searchHistory) = HistoryCap
    /\ Filler(1) \notin Range(searchHistory)

(***************************************************************************)
(* Properties of the side panel (SpecPanel).                               *)
(***************************************************************************)
\* C8: a response that was requested for a node other than the selected one
\* changes neither the image url, the image-loading flag, the quiz, the
\* flashcard list nor the flashcard cursor
C8_StaleResponseIgnored ==
    [][(/\ ev'.type \in {"imageResponse", "quizSuccess", "flashcardSuccess"}
        /\ selectedNode # <<>>
        /\ selectedNode[1].data.concept # ev'.topic) =>
          UNCHANGED <<imageUrl, isImageLoading, quiz, flashcards,
                      currentFlashcardIndex>>]_vars

C10_PinnedWhileDragged ==
    \A i \in 1..Len(simNodes) :
        (simNodes[i].fx # Null \/ simNodes[i].fy # Null) <=> holders(i) # {}

\* C11: the target energy is raised whenever a drag is in progress, and it
\* goes back to 0 only in a drag end that leaves no drag in progress
C11_EnergyRaisedWhileDragged ==
    /\ []((\E p \in Pointers : gestures[p].running) => alphaTarget = AlphaTargetRaised)
    /\ [][alphaTarget # 0 /\ alphaTarget' = 0
            => /\ ev'.type = "dragEnd"
               /\ \A p \in Pointers : ~gestures'[p].running]_vars

\* C12: for two ids s and t, getStableLinkId returns "s-t" for the link of
\* these endpoints in each of the four forms (id or node object, each end)
C12_StableLinkId ==
    stableLinkId # Null
    => stableLinkId = Some(linkInput.s \o <<"-">> \o linkInput.t)

\* it was called on a link whose source is a node object and whose target is
\* an id, of different ids
C12_Witness ==
    /\ stableLinkId # Null
    /\ linkInput.sourceForm = "object"
    /\ linkInput.targetForm = "string"
    /\ linkInput.s # linkInput.t

\* C13: when a search replaces the graph, a node whose id is in the old and
\* in the new node list has, right after the reconciliation, the simulated
\* position it had just before (x and y; a node's velocity is what each tick
\* draws for it, and is not kept between ticks here)
C13_PositionPreserved ==
    [][ev'.type = "mapSuccess"
       => \A i \in 1..Len(graphData'.nodes) : \A j \in 1..Len(graphData.nodes) :
             graphData'.nodes[i].id = graphData.nodes[j].id
             => /\ simNodes'[i].x = simNodes[j].x
                /\ simNodes'[i].y = simNodes[j].y]_vars

\* C14: the renderer is never initialised against a container that measures
\* nothing: no simulation is built against a zero-sized extent (such an
\* initialisation is skipped, and a later data change initialises it)
C14_NoZeroSizedExtent ==
    viewport # Some(NoSize)

\* C15: a flashcard generation for the selected node that succeeds makes the
\* list one card longer, the new card at its end, and leaves the cursor on
\* that card: the current index is the new length minus one
C15_CardAppendedAndShown ==
    [][/\ ev'.type = "flashcardSuccess"
       /\ selectedNode # <<>>
       /\ selectedNode[1].data.concept = ev'.topic
       => /\ flashcards' = Append(flashcards, Flashcard(ev'.topic))
          /\ currentFlashcardIndex' = Len(flashcards') - 1]_vars

\* C16: an answer is submitted only with an option selected; a submitted
\* answer is shown as correct exactly when the selected option is the quiz's
\* correctAnswer; and once submitted, the selected option and the quiz stay
\* as they are until a quiz is generated or a node is selected
C16_QuizAnswering ==
    /\ [](isAnswerSubmitted /\ selectedNode # <<>>
            => /\ quizShown
               /\ selectedAnswer # Null
               /\ (answerShown = "Correct!" <=> selectedAnswer[1] = quiz[1].correctAnswer))
    /\ [][ev'.type = "submitAnswer"
            => selectedAnswer # Null /\ selectedAnswer' = selectedAnswer]_vars
    /\ [][isAnswerSubmitted
            => \/ /\ isAnswerSubmitted'
                  /\ selectedAnswer' = selectedAnswer
                  /\ quiz' = quiz
               \/ ev'.type = "generateQuiz"
               \/ ev'.type = "nodeClick" /\ selectedIndex' # selectedIndex]_vars

\* an answer that is not the correct one was just submitted
C16_Witness ==
    /\ ev.type = "submitAnswer"
    /\ isAnswerSubmitted
    /\ selectedAnswer # Null
    /\ answerShown = "Incorrect."

\* C17: right after a click selects a new node, the whole per-node state of
\* the panel is as at the start: the image unresolved and loading, no quiz,
\* no selected answer, nothing submitted, no flashcards, the cursor at 0, the
\* card not flipped, and no quiz or flashcard generation shown as running
C17_PanelStateReset ==
    [][ev'.type = "nodeClick" /\ selectedIndex' # selectedIndex
       => /\ imageUrl' = Null
          /\ isImageLoading'
          /\ quiz' = Null
          /\ selectedAnswer' = Null
          /\ ~isAnswerSubmitted'
          /\ flashcards' = <<>>
          /\ currentFlashcardIndex' = 0
          /\ ~isFlashcardFlipped'
          /\ ~isQuizLoading'
          /\ ~isFlashcardLoading']_vars

\* C18: after every reconciliation there is one line per link and one
\* container per node of the new data; an element that stays is drawn for a
\* datum of its own identity, so no element whose identity is absent from the
\* new data remains; and of every identity the elements that were there stay,
\* as many as the new data has items of that identity: every element whose
\* identity is in the old and the new data when identities are unique
C18_ElementsMatchData ==
    [][ev'.type \in {"mapSuccess", "mapFail"}
       => LET count(keys, k) == Cardinality({i \in 1..Len(keys) : keys[i] = k})
              matches(groupKeys, dataKeys) ==
                  LET joined == joinElements(groupKeys, dataKeys)
                      stay(k) == {joined[i] : i \in {h \in 1..Len(dataKeys) :
                                                      dataKeys[h] = k}} \ {0}
                  IN  /\ Len(joined) = Len(dataKeys)
                      /\ \A i \in 1..Len(dataKeys) :
                            joined[i] # 0 => groupKeys[joined[i]] = dataKeys[i]
                      /\ \A j \in 1..Len(groupKeys) :
                            Cardinality(stay(groupKeys[j]))
                              = Min(count(groupKeys, groupKeys[j]),
                                    count(dataKeys, groupKeys[j]))
              nodes == joinElements(groupNodeKeys, dataNodeKeys(graphData'))
          IN  /\ matches(groupLinkKeys, dataLinkKeys(graphData'))
              /\ matches(groupNodeKeys, dataNodeKeys(graphData'))
              /\ linkElements' = Len(graphData'.links)
              /\ Len(nodeElements') = Len(graphData'.nodes)
              /\ \A i \in 1..Len(nodes) : \A h \in 1..Len(nodes) :
                    nodeElements'[i].drag = nodeElements'[h].drag
                    <=> \/ nodes[i] = 0 /\ nodes[h] = 0
                        \/ /\ nodes[i] # 0
                           /\ nodes[h] # 0
                           /\ nodeElements[nodes[i]].drag = nodeElements[nodes[h]].drag]_vars

\* C19: a drag start, move or end of a pointer on a node changes the pin
\* fields (fx, fy) of that node only: every other node of the simulation,
\* and every other node of a replaced graph that a gesture still holds,
\* keeps its pin.  The pointer of the event is the one that went down, went
\* up or changed place in the step
C19_OwnPinsOnly ==
    [][ev'.type \in {"dragStart", "drag", "dragEnd"}
       => \A p \in Pointers :
             \/ /\ gestures'[p].running = gestures[p].running
                /\ gestures'[p].px = gestures[p].px
                /\ gestures'[p].py = gestures[p].py
             \/ LET g == IF gestures[p].running THEN gestures[p] ELSE gestures'[p]
                    pin(n) == <<n.fx, n.fy>>
                IN  /\ Len(simNodes') = Len(simNodes)
                    /\ \A i \in 1..Len(simNodes) :
                          (~g.cur \/ i # g.node) => pin(simNodes'[i]) = pin(simNodes[i])
                    /\ IF Len(oldNodes') = Len(oldNodes)
                       THEN \A k \in 1..Len(oldNodes) :
                               (g.cur \/ k # g.node)
                               => pin(oldNodes'[k]) = pin(oldNodes[k])
                       ELSE ~g.cur /\ oldNodes' = RemoveAt(oldNodes, g.node)]_vars

\* a pointer just moved its node while another pointer holds another node,
\* and the two nodes are pinned at different places
C19_Witness ==
    /\ ev.type = "drag"
    /\ \E p \in Pointers : \E q \in Pointers \ {p} :
          /\ gestures[p].running /\ gestures[p].cur
          /\ gestures[q].running /\ gestures[q].cur
          /\ gestures[p].node # gestures[q].node
          /\ simNodes[gestures[p].node].fx # Null
          /\ simNodes[gestures[q].node].fx # Null
          /\ simNodes[gestures[p].node].fx # simNodes[gestures[q].node].fx

\* C20: a search started by a click on a history entry never changes the
\* search history: the click leaves the list as it is and starts the search
\* with addToHistory false, and the response of such a search, success or
\* failure, leaves the list as it is
C20_HistoryClickKeepsHistory ==
    [][/\ ev'.type = "history"
          => /\ searchHistory' = searchHistory
             /\ Len(mapCalls') = Len(mapCalls) + 1
             /\ ~mapCalls'[Len(mapCalls')].addToHistory
       /\ ev'.type \in {"mapSuccess", "mapFail"} /\ ~ev'.addToHistory
          => searchHistory' = searchHistory]_vars

\* the search of a clicked entry that is not the first of the list has just
\* succeeded, and the entry is still not the first
C20_Witness ==
    /\ ev.type = "mapSuccess"
    /\ ~ev.addToHistory
    /\ Len(searchHistory) >= 2
    /\ \E i \in 2..Len(searchHistory) : searchHistory[i] = ev.topic

\* C21: whenever the flashcard list is not empty the cursor is inside it,
\* 0 <= currentFlashcardIndex < flashcards.length, so that the card to draw
\* is defined
C21_CursorInsideDeck ==
    flashcards # <<>>
    => /\ 0 <= currentFlashcardIndex
       /\ currentFlashcardIndex < Len(flashcards)

\* C22: the loading flag is true exactly when at least one map-generation
\* request is in flight, whatever the order of search starts and responses
C22_LoadingWhileInFlight ==
    isLoading <=> mapCalls # <<>>

\* C23: when no search is in flight and the search that was started last
\* succeeded, the graph on display is the graph of that search: with the
\* topic field still holding the topic that search put there, the central
\* node's id equals the topic field, whatever the order of the responses
C23_LastSearchDisplayed ==
    /\ mapCalls = <<>>
    /\ lastSearch.outcome = "succeeded"
    /\ topic = lastSearch.topic
    => /\ graphData.nodes # <<>>
       /\ graphData.nodes[1].id = topic

\* C24: whenever a node is selected, that node is one of the nodes of the
\* GraphData on display
C24_SelectedNodeDisplayed ==
    selectedNode # <<>>
    => \E i \in 1..Len(graphData.nodes) : graphData.nodes[i] = selectedNode[1]

\* C25: getStableLinkId is injective on the pairs of endpoint ids: a link
\* that differs from the one it was called on in its source id or in its
\* target id does not get the same identity, also for ids that contain "-"
C25_StableLinkIdInjective ==
    stableLinkId # Null
    => \A other \in LinkInputs :
          other.s # linkInput.s \/ other.t # linkInput.t
          => Some(getStableLinkId(linkOf(other))) # stableLinkId

====
